---- MODULE Spec2Model ----
(***************************************************************************)
(* Model of loglikelihood_cpp (src/src/hmmloglikelihood.cpp): the forward  *)
(* algorithm of a two-state hidden Markov model over genomic sites.        *)
(*                                                                         *)
(* Numbers.  A C++ double is modelled as a record [c, n, d]:               *)
(*   c = "fin"   the finite value n/d (a normalised fraction, d > 0),      *)
(*   c = "inf"   +infinity (n = 1) or -infinity (n = -1),                  *)
(*   c = "nan"   not-a-number,                                             *)
(*   c = "log"   the finite value log(n/d), n/d > 0: what log() returns    *)
(*               and what the accumulator holds (a sum of logs is the log  *)
(*               of the product),                                          *)
(*   c = "unset" a local that has not been assigned yet.                   *)
(* Finite arithmetic is exact (rounding is not modelled); the IEEE special *)
(* values are modelled as the hardware produces them (x/0, 0/0, 0*inf,     *)
(* inf-inf, log(0), log of a negative, NaN propagation, NaN comparisons).  *)
(* The sign of a zero is not modelled: the only divisor that can be zero   *)
(* is l_idata, and whenever the dividend is non-zero l_idata is an exact   *)
(* cancellation x + (-x), which is +0.                                     *)
(* exp() is modelled on arguments that are integer multiples of ln 2,      *)
(* where it is the rational 2^m; rho is fixed at ln 2 so that the          *)
(* argument -k*rho*gendist is such a multiple when k and gendist are       *)
(* integers.                                                               *)
(***************************************************************************)
EXTENDS Integers, Sequences, FiniteSets, TLC

\* ------------------------------------------------------------------------
\* doubles

Abs(i) == IF i < 0 THEN -i ELSE i

RECURSIVE GCD(_, _)
GCD(a, b) == IF b = 0 THEN a ELSE GCD(b, a % b)

\* the fraction n/d (d # 0), normalised
Fin(n, d) ==
  LET g == GCD(Abs(n), Abs(d))
      s == IF d < 0 THEN -1 ELSE 1
  IN  [c |-> "fin", n |-> s * (n \div g), d |-> s * (d \div g)]

NaN == [c |-> "nan", n |-> 0, d |-> 1]
PInf == [c |-> "inf", n |-> 1, d |-> 1]
NInf == [c |-> "inf", n |-> -1, d |-> 1]
Unset == [c |-> "unset", n |-> 0, d |-> 1]
Zero == Fin(0, 1)
One == Fin(1, 1)
Int2D(i) == Fin(i, 1)

Sgn(x) == IF x.n > 0 THEN 1 ELSE IF x.n < 0 THEN -1 ELSE 0
InfOf(s) == IF s > 0 THEN PInf ELSE NInf
IsNum(x) == x.c \in {"fin", "inf"}

DNeg(x) == IF x.c = "fin" THEN Fin(-x.n, x.d)
           ELSE IF x.c = "inf" THEN InfOf(-x.n)
           ELSE NaN

DAdd(x, y) ==
  IF x.c = "fin" /\ y.c = "fin"
  THEN LET g == GCD(x.d, y.d)
       IN  Fin(x.n * (y.d \div g) + y.n * (x.d \div g), (x.d \div g) * y.d)
  ELSE IF ~IsNum(x) \/ ~IsNum(y) THEN NaN
  ELSE IF x.c = "inf" /\ y.c = "inf" THEN (IF x.n = y.n THEN x ELSE NaN)
  ELSE IF x.c = "inf" THEN x
  ELSE y

DSub(x, y) == DAdd(x, DNeg(y))

DMul(x, y) ==
  IF x.c = "fin" /\ y.c = "fin"
  THEN IF x.n = 0 \/ y.n = 0 THEN Zero
       ELSE LET g1 == GCD(Abs(x.n), y.d)
                g2 == GCD(Abs(y.n), x.d)
            IN  \* cancelled crosswise, the product is in lowest terms
                [c |-> "fin", n |-> (x.n \div g1) * (y.n \div g2),
                              d |-> (x.d \div g2) * (y.d \div g1)]
  ELSE IF ~IsNum(x) \/ ~IsNum(y) THEN NaN
  ELSE IF Sgn(x) * Sgn(y) = 0 THEN NaN
  ELSE InfOf(Sgn(x) * Sgn(y))

DDiv(x, y) ==
  IF ~IsNum(x) \/ ~IsNum(y) THEN NaN
  ELSE IF x.c = "inf" THEN (IF y.c = "inf" THEN NaN
                            ELSE InfOf(x.n * (IF y.n < 0 THEN -1 ELSE 1)))
  ELSE IF y.c = "inf" THEN Zero
  ELSE IF y.n = 0 THEN (IF x.n = 0 THEN NaN ELSE InfOf(x.n))
  ELSE DMul(x, Fin(y.d, y.n))

\* x < y as the hardware compares: false when either side is NaN
DLt(x, y) ==
  IF ~IsNum(x) \/ ~IsNum(y) THEN FALSE
  ELSE IF x.c = "inf" THEN x.n < 0 /\ ~(y.c = "inf" /\ y.n < 0)
  ELSE IF y.c = "inf" THEN y.n > 0
  ELSE x.n * y.d < y.n * x.d

DLe(x, y) == IsNum(x) /\ IsNum(y) /\ ~DLt(y, x)

\* log(x)
Log(x) ==
  IF x.c = "fin" THEN (IF x.n > 0 THEN [c |-> "log", n |-> x.n, d |-> x.d]
                       ELSE IF x.n = 0 THEN NInf
                       ELSE NaN)
  ELSE IF x.c = "inf" /\ x.n > 0 THEN PInf
  ELSE NaN

\* acc + lg, where both are results of log or sums of them
LogAdd(acc, lg) ==
  IF acc.c = "nan" \/ lg.c = "nan" THEN NaN
  ELSE IF acc.c = "inf" /\ lg.c = "inf" THEN (IF acc.n = lg.n THEN acc ELSE NaN)
  ELSE IF acc.c = "inf" THEN acc
  ELSE IF lg.c = "inf" THEN lg
  ELSE LET p == DMul(Fin(acc.n, acc.d), Fin(lg.n, lg.d))
       IN  [c |-> "log", n |-> p.n, d |-> p.d]

RECURSIVE Pow2(_)
Pow2(m) == IF m = 0 THEN 1 ELSE 2 * Pow2(m - 1)

\* exp(x) for x an integer number of ln 2 (or infinite, or NaN)
Exp(x) ==
  IF x.c = "nan" THEN NaN
  ELSE IF x.c = "inf" THEN (IF x.n > 0 THEN PInf ELSE Zero)
  ELSE IF x.n >= 0 THEN Fin(Pow2(x.n), 1)
  ELSE Fin(1, Pow2(-x.n))

\* ------------------------------------------------------------------------
\* bounds of the model and the input grids

\* the largest number of sites (rows of Ys)
MaxSites == 3
\* the number of columns of f
maxnstates == 4
\* rho, in units of ln 2
rho == 1

Half == Fin(1, 2)
Quarter == Fin(1, 4)

\* a row of f: the given leading frequencies, then zeros
Row(vals) == [g \in 0..(maxnstates - 1) |-> IF g < Len(vals) THEN vals[g + 1] ELSE Zero]
Row2 == Row(<<Half, Half>>)
Row3 == Row(<<Half, Quarter, Quarter>>)
Row4 == Row(<<Half, Quarter, Fin(1, 8), Fin(1, 8)>>)
Pair(a, b) == [j \in 0..1 |-> IF j = 0 THEN a ELSE b]

\* ------------------------------------------------------------------------
\* the site emission evaluator

\* f(idata, nstates) > 1e-20. Every fraction n/d of the model has d < 2^31 <
\* 10^20, so n/d > 1e-20 exactly when n >= 1.
AboveThreshold(x) == x.c = "fin" /\ x.n >= 1

\* the while loop that counts the leading slots above the threshold
RECURSIVE CountStates(_, _)
CountStates(frow, n) ==
  IF n < maxnstates /\ AboveThreshold(frow[n]) THEN CountStates(frow, n + 1) ELSE n

NStates(frow) == CountStates(frow, 0)

\* a slip: nstates errors counted instead of nstates - 1
ObsFactorAllStates(y, g, ns, eps) ==
  IF y = g THEN DSub(One, DMul(Int2D(ns), eps)) ELSE eps

\* a slip: the error probability added instead of subtracted
ObsFactorPlus(y, g, ns, eps) ==
  IF y = g THEN DAdd(One, DMul(Int2D(ns - 1), eps)) ELSE eps

\* the factor a comparison Ys(idata, .) == g multiplies into incr
ObsFactor(y, g, ns, eps) ==
  IF y = g THEN DSub(One, DMul(Int2D(ns - 1), eps)) ELSE eps

\* incr of the double loop, for one (g, gprime)
Incr0(frow, y0, y1, g, gp, ns, eps) ==
  DMul(DMul(DMul(frow[g], frow[gp]), ObsFactor(y0, g, ns, eps)),
       ObsFactor(y1, gp, ns, eps))

\* a slip: the second comparison of the single loop left out
Incr1OneComparison(frow, y0, y1, g, ns, eps) ==
  DMul(DMul(frow[g], ObsFactor(y0, g, ns, eps)), eps)

\* incr of the single loop, for one g
Incr1(frow, y0, y1, g, ns, eps) ==
  DMul(DMul(frow[g], ObsFactor(y0, g, ns, eps)), ObsFactor(y1, g, ns, eps))

\* 0. + s[1] + s[2] + ..., added in order
RECURSIVE SumSeq(_, _)
SumSeq(s, i) == IF i = 0 THEN Zero ELSE DAdd(SumSeq(s, i - 1), s[i])

\* lk0: the double loop over g (outer) and gprime (inner)
Lk0(frow, y0, y1, eps) ==
  LET ns == NStates(frow)
      terms == [i \in 1..(ns * ns) |->
                  Incr0(frow, y0, y1, (i - 1) \div ns, (i - 1) % ns, ns, eps)]
  IN  SumSeq(terms, ns * ns)

\* lk1: the single loop over g
Lk1(frow, y0, y1, eps) ==
  LET ns == NStates(frow)
      terms == [i \in 1..ns |-> Incr1(frow, y0, y1, i - 1, ns, eps)]
  IN  SumSeq(terms, ns)

\* ------------------------------------------------------------------------
\* the recursion

\* a slip: the test of k left out
InfeasibleNoK(kk, rr) == DLt(rr, Zero) \/ DLt(One, rr)

\* the feasibility test of (k, r)
Infeasible(kk, rr) == DLt(rr, Zero) \/ DLt(One, rr) \/ DLt(kk, Zero)

\* a slip: the two entries exchanged
InitialPredictiveSwapped(rr) == [s \in 0..1 |-> IF s = 0 THEN rr ELSE DSub(One, rr)]

\* current_predictive as first set: (1 - r, r)
InitialPredictive(rr) == [s \in 0..1 |-> IF s = 0 THEN DSub(One, rr) ELSE rr]

\* current_filter(s) = current_predictive(s) * lk_s
FilterUpdate(pred, l0, l1) ==
  [s \in 0..1 |-> IF s = 0 THEN DMul(pred[0], l0) ELSE DMul(pred[1], l1)]

\* l_idata
Marginal(filt) == DAdd(filt[0], filt[1])

\* a slip: the last site not excepted
NotLastSiteOffByOne(t, n) == t < n

\* the test guarding normalisation and prediction
NotLastSite(t, n) == t < n - 1

\* a slip: the division left out
NormalizeNoDivision(filt, l) == filt

\* current_filter / l_idata
Normalize(filt, l) == [s \in 0..1 |-> DDiv(filt[s], l)]

\* exp_
Decay(kk, gd) == Exp(DMul(DMul(DNeg(kk), Int2D(rho)), gd))

\* a slip: a01 = r * exp_ in place of r * (1 - exp_)
NextPredictiveBadA01(filt, kk, rr, gd) ==
  LET e == Decay(kk, gd)
      a01 == DMul(rr, e)
      a11 == DAdd(rr, DMul(DSub(One, rr), e))
      p1 == DAdd(DMul(filt[0], a01), DMul(filt[1], a11))
  IN  [s \in 0..1 |-> IF s = 0 THEN DSub(One, p1) ELSE p1]

\* the next current_predictive from the normalised filter
NextPredictive(filt, kk, rr, gd) ==
  LET e == Decay(kk, gd)
      a01 == DMul(rr, DSub(One, e))
      a11 == DAdd(rr, DMul(DSub(One, rr), e))
      p1 == DAdd(DMul(filt[0], a01), DMul(filt[1], a11))
  IN  [s \in 0..1 |-> IF s = 0 THEN DSub(One, p1) ELSE p1]

\* one pass of the loop body on the locals loc = [pred, filt, ll], at site t of n
SiteStep(loc, t, n, kk, rr, ys, ff, gd, eps) ==
  LET l0 == Lk0(ff[t], ys[t][0], ys[t][1], eps)
      l1 == Lk1(ff[t], ys[t][0], ys[t][1], eps)
      u == FilterUpdate(loc.pred, l0, l1)
      l == Marginal(u)
      ll == LogAdd(loc.ll, Log(l))
  IN  IF NotLastSite(t, n)
      THEN LET q == Normalize(u, l)
           IN  [pred |-> NextPredictive(q, kk, rr, gd[t]), filt |-> q, ll |-> ll]
      ELSE [pred |-> loc.pred, filt |-> u, ll |-> ll]

\* the locals at the head of the loop with idata = stop, from those at idata = t
RECURSIVE Forward(_, _, _, _, _, _, _, _, _, _)
Forward(loc, t, stop, n, kk, rr, ys, ff, gd, eps) ==
  IF t >= stop THEN loc
  ELSE Forward(SiteStep(loc, t, n, kk, rr, ys, ff, gd, eps),
               t + 1, stop, n, kk, rr, ys, ff, gd, eps)

\* the locals once validation has accepted
EntryLocals(rr) ==
  [pred |-> InitialPredictive(rr), filt |-> [s \in 0..1 |-> Zero], ll |-> Log(One)]

\* the value a whole call returns
loglikelihood_cpp(kk, rr, ys, ff, gd, eps, n) ==
  IF Infeasible(kk, rr) THEN Log(Zero)
  ELSE Forward(EntryLocals(rr), 0, n, n, kk, rr, ys, ff, gd, eps).ll

\* ------------------------------------------------------------------------
\* one call as a state machine

VARIABLES
  k, r, Ys, f, gendist, epsilon, \* the arguments (rho is fixed)
  ndata,                         \* Ys.nrow()
  pc,                            \* "validate", "loop", "filtered", "normalized", "done"
  idata, nstates, lk0, lk1, l_idata,
  current_predictive, current_filter, loglikelihood_value,
  result,                        \* the value returned
  stages,                        \* history: the stages run so far, in order
  reads,                         \* history: the elements of Ys, f, gendist read so far
  l_hist                         \* history: l_idata of every site processed

vars == <<k, r, Ys, f, gendist, epsilon, ndata, pc, idata, nstates, lk0, lk1, l_idata,
          current_predictive, current_filter, loglikelihood_value, result,
          stages, reads, l_hist>>

args == <<k, r, Ys, f, gendist, epsilon, ndata>>

KGrid == {Int2D(-1), Zero, One}
RGrid == {Fin(-1, 2), Zero, Half, One, Fin(3, 2)}
EpsGrid == {Zero, Quarter, Half}
\* what a site carries: a row of f, an observed pair and a distance to the next
\* site. A matching pair and a pair out of range (one value at or above
\* nstates, one negative) on two alleles; a mismatching pair and a pair half
\* out of range on four alleles.
SiteGrid == {[row |-> Row2, ys |-> Pair(0, 0), gd |-> One],
             [row |-> Row2, ys |-> Pair(2, -1), gd |-> Zero],
             [row |-> Row4, ys |-> Pair(0, 1), gd |-> Int2D(2)],
             [row |-> Row4, ys |-> Pair(-1, 2), gd |-> One]}

\* the locals and the history at entry
Entry ==
  /\ pc = "validate"
  /\ idata = 0
  /\ nstates = 0
  /\ lk0 = Unset
  /\ lk1 = Unset
  /\ l_idata = Unset
  /\ current_predictive = [s \in 0..1 |-> Unset]
  /\ current_filter = [s \in 0..1 |-> Unset]
  /\ loglikelihood_value = Log(One)
  /\ result = Unset
  /\ stages = <<>>
  /\ reads = {}
  /\ l_hist = <<>>

Init ==
  /\ k \in KGrid
  /\ r \in RGrid
  /\ epsilon \in EpsGrid
  /\ ndata \in 0..MaxSites
  /\ \E sites \in [0..(ndata - 1) -> SiteGrid] :
       /\ Ys = [t \in 0..(ndata - 1) |-> sites[t].ys]
       /\ f = [t \in 0..(ndata - 1) |-> sites[t].row]
       /\ gendist = [t \in 0..(ndata - 1) |-> sites[t].gd]
  /\ Entry

\* if (r < 0 || r > 1 || k < 0) return(log(0.));
Reject ==
  /\ pc = "validate"
  /\ Infeasible(k, r)
  /\ result' = Log(Zero)
  /\ pc' = "done"
  /\ UNCHANGED <<args, idata, nstates, lk0, lk1, l_idata, current_predictive,
                 current_filter, loglikelihood_value, stages, reads, l_hist>>

\* the set-up of the vectors and of the loop
Accept ==
  /\ pc = "validate"
  /\ ~Infeasible(k, r)
  /\ current_predictive' = InitialPredictive(r)
  /\ current_filter' = [s \in 0..1 |-> Zero]
  /\ idata' = 0
  /\ reads' = reads \cup {<<"dim", 0>>}
  /\ pc' = "loop"
  /\ UNCHANGED <<args, nstates, lk0, lk1, l_idata, loglikelihood_value, result,
                 stages, l_hist>>

\* the loop body up to loglikelihood_value += log(l_idata)
Filter ==
  /\ pc = "loop"
  /\ idata < ndata
  /\ nstates' = NStates(f[idata])
  /\ lk0' = Lk0(f[idata], Ys[idata][0], Ys[idata][1], epsilon)
  /\ lk1' = Lk1(f[idata], Ys[idata][0], Ys[idata][1], epsilon)
  /\ current_filter' = FilterUpdate(current_predictive, lk0', lk1')
  /\ l_idata' = Marginal(current_filter')
  /\ loglikelihood_value' = LogAdd(loglikelihood_value, Log(l_idata'))
  /\ l_hist' = Append(l_hist, l_idata')
  /\ stages' = Append(stages, <<"filter", idata>>)
  /\ reads' = reads \cup {<<"f", idata>>, <<"Ys", idata>>}
  /\ pc' = "filtered"
  /\ UNCHANGED <<args, idata, current_predictive, result>>

\* current_filter = current_filter / l_idata, when idata < ndata-1
NormalizeFilter ==
  /\ pc = "filtered"
  /\ NotLastSite(idata, ndata)
  /\ current_filter' = Normalize(current_filter, l_idata)
  /\ stages' = Append(stages, <<"normalize", idata>>)
  /\ pc' = "normalized"
  /\ UNCHANGED <<args, idata, nstates, lk0, lk1, l_idata, current_predictive,
                 loglikelihood_value, result, reads, l_hist>>

\* the rest of the if block, and idata++
Predict ==
  /\ pc = "normalized"
  /\ current_predictive' = NextPredictive(current_filter, k, r, gendist[idata])
  /\ stages' = Append(stages, <<"predict", idata>>)
  /\ reads' = reads \cup {<<"gendist", idata>>}
  /\ idata' = idata + 1
  /\ pc' = "loop"
  /\ UNCHANGED <<args, nstates, lk0, lk1, l_idata, current_filter,
                 loglikelihood_value, result, l_hist>>

\* the if block skipped at the last site, and idata++
SkipPredict ==
  /\ pc = "filtered"
  /\ ~NotLastSite(idata, ndata)
  /\ idata' = idata + 1
  /\ pc' = "loop"
  /\ UNCHANGED <<args, nstates, lk0, lk1, l_idata, current_predictive, current_filter,
                 loglikelihood_value, result, stages, reads, l_hist>>

\* the loop ends: return(loglikelihood_value)
Return ==
  /\ pc = "loop"
  /\ ~(idata < ndata)
  /\ result' = loglikelihood_value
  /\ pc' = "done"
  /\ UNCHANGED <<args, idata, nstates, lk0, lk1, l_idata, current_predictive,
                 current_filter, loglikelihood_value, stages, reads, l_hist>>

Next ==
  \/ Reject
  \/ Accept
  \/ Filter
  \/ NormalizeFilter
  \/ Predict
  \/ SkipPredict
  \/ Return

Spec == Init /\ [][Next]_vars

\* ------------------------------------------------------------------------
\* calls on one or two sites, over a wide grid of emission inputs (every site
\* of a call carries the same row of f and the same observed pair)

SiteRGrid == {Fin(-1, 10), Fin(3, 10), One}
SiteEpsGrid == {Zero, Quarter, Half, Fin(3, 4)}
SiteRowGrid == {Row(<<One>>), Row2, Row3, Row4, Row(<<Quarter, Fin(3, 4)>>),
                Row(<<Half, Zero, Half>>), Row(<<Zero, One>>)}
SiteYGrid == {Pair(a, b) : a \in (-1)..maxnstates, b \in (-1)..maxnstates}

InitSite ==
  /\ k = One
  /\ r \in SiteRGrid
  /\ epsilon \in SiteEpsGrid
  /\ ndata \in 1..2
  /\ \E row \in SiteRowGrid : f = [t \in 0..(ndata - 1) |-> row]
  /\ \E yp \in SiteYGrid : Ys = [t \in 0..(ndata - 1) |-> yp]
  /\ gendist = [t \in 0..(ndata - 1) |-> One]
  /\ Entry

SpecSite == InitSite /\ [][Next]_vars

\* ------------------------------------------------------------------------
\* the chain predictor alone: the prediction step applied to a grid of
\* normalised filters, distances (infinite included) and parameters

PredictKGrid == {Zero, One, Int2D(2)}
PredictRGrid == {Zero, Quarter, Half, Fin(3, 4), One}
PredictGendistGrid == {Zero, One, Int2D(2), Int2D(3), PInf}
PredictFilterGrid == {[s \in 0..1 |-> IF s = 0 THEN DSub(One, q) ELSE q] : q \in PredictRGrid}

InitPredict ==
  /\ k \in PredictKGrid
  /\ r \in PredictRGrid
  /\ epsilon = Quarter
  /\ ndata = 2
  /\ f = [t \in 0..1 |-> Row2]
  /\ Ys = [t \in 0..1 |-> Pair(0, 0)]
  /\ \E g \in PredictGendistGrid : gendist = [t \in 0..1 |-> g]
  /\ pc = "normalized"
  /\ idata = 0
  /\ nstates = NStates(Row2)
  /\ lk0 = Unset
  /\ lk1 = Unset
  /\ l_idata = Unset
  /\ current_predictive = InitialPredictive(r)
  /\ current_filter \in PredictFilterGrid
  /\ loglikelihood_value = Log(One)
  /\ result = Unset
  /\ stages = <<>>
  /\ reads = {}
  /\ l_hist = <<>>

NextPredict == Predict

SpecPredict == InitPredict /\ [][NextPredict]_vars

\* ------------------------------------------------------------------------
\* vocabulary of the properties

\* the feasible range of the parameters: 0 <= r <= 1 and k >= 0
Feasible == DLe(Zero, r) /\ DLe(r, One) /\ DLe(Zero, k)
NonNeg(x) == x.c = "fin" /\ x.n >= 0
IsProb(x) == x.c = "fin" /\ 0 <= x.n /\ x.n <= x.d
IsDist(v) == NonNeg(v[0]) /\ NonNeg(v[1]) /\ DAdd(v[0], v[1]) = One
DAbs(x) == IF DLt(x, Zero) THEN DNeg(x) ELSE x
InRange(y, ns) == 0 <= y /\ y < ns
\* the match factor 1 - (nstates_t - 1) * epsilon of site t is not negative
EpsOk(t) == DLe(DMul(Int2D(NStates(f[t]) - 1), epsilon), One)
\* the sum of the active frequencies of a row
ActiveSum(frow) == SumSeq([i \in 1..NStates(frow) |-> frow[i - 1]], NStates(frow))
\* the number of sites whose filter update ran, and whose prediction ran
Filtered == Len(l_hist)
Predicted == Cardinality({i \in DOMAIN stages : stages[i][1] = "predict"})
\* every one of the first n sites has a non-negative match factor and L_t > 0
Healthy(n) == \A s \in 0..(n - 1) : EpsOk(s) /\ DLt(Zero, l_hist[s + 1])
\* Ys with its two columns exchanged at every site
SwapColumns(ys) == [t \in DOMAIN ys |-> Pair(ys[t][1], ys[t][0])]
\* a value that is <= 0, or -infinity
NonPositiveOrNegInf(x) == (x.c = "log" /\ x.n <= x.d) \/ x = NInf

\* ------------------------------------------------------------------------
\* C1

\* C1: if r < 0 or r > 1 or k < 0, the call returns -infinity at once: its only
\* step is the return, no site is filtered or predicted, no element of Ys, f or
\* gendist (nor a dimension) is read, and every local is as at entry.
C1_RejectReturnsNegInf ==
  (DLt(r, Zero) \/ DLt(One, r) \/ DLt(k, Zero)) =>
    /\ pc \in {"validate", "done"}
    /\ pc = "done" => result = NInf
    /\ stages = <<>> /\ reads = {} /\ l_hist = <<>>
    /\ idata = 0 /\ lk0 = Unset /\ lk1 = Unset /\ l_idata = Unset
    /\ current_predictive = [s \in 0..1 |-> Unset]
    /\ current_filter = [s \in 0..1 |-> Unset]
    /\ loglikelihood_value = Log(One)

C1_Witness ==
  /\ pc = "done" /\ result = NInf
  /\ DLt(k, Zero) /\ r = Half
  /\ ndata = MaxSites

\* ------------------------------------------------------------------------
\* C2

\* C2: for feasible (k, r), if L_t is exactly 0 at some site, the value returned
\* is -infinity.
C2_ZeroLikelihoodReturnsNegInf ==
  (pc = "done" /\ Feasible /\ \E i \in DOMAIN l_hist : l_hist[i] = Zero)
    => result = NInf

\* ------------------------------------------------------------------------
\* C3

C4_StatedDomain ==
  /\ Feasible
  /\ DLe(Zero, epsilon) /\ DLt(epsilon, One)
  /\ \A t \in 0..(ndata - 1) :
       /\ \A g \in 0..(maxnstates - 1) : NonNeg(f[t][g])
       /\ SumSeq([i \in 1..maxnstates |-> f[t][i - 1]], maxnstates) = One
       /\ InRange(Ys[t][0], NStates(f[t])) /\ InRange(Ys[t][1], NStates(f[t]))

C5_ColumnSwapSymmetry ==
  /\ pc = "filtered" =>
       LET s0 == Lk0(f[idata], Ys[idata][1], Ys[idata][0], epsilon)
           s1 == Lk1(f[idata], Ys[idata][1], Ys[idata][0], epsilon)
       IN  /\ lk0 = s0
           /\ lk1 = s1
           /\ current_filter = FilterUpdate(current_predictive, s0, s1)
           /\ l_idata = Marginal(FilterUpdate(current_predictive, s0, s1))
  /\ pc = "done" =>
       result = loglikelihood_cpp(k, r, SwapColumns(Ys), f, gendist, epsilon, ndata)

C5_Witness ==
  /\ pc = "done" /\ Feasible /\ ndata = MaxSites
  /\ \A t \in 0..(ndata - 1) : Ys[t][0] # Ys[t][1]
  /\ \E t \in 0..(ndata - 1) : InRange(Ys[t][0], nstates) /\ InRange(Ys[t][1], nstates)
  /\ epsilon = Quarter
  /\ result.c = "log"

\* ------------------------------------------------------------------------
\* C6

\* the stages of an accepted call on n sites, from site t on
RECURSIVE ExpectedStages(_, _)
ExpectedStages(t, n) ==
  IF t >= n THEN <<>>
  ELSE IF t + 1 < n
       THEN <<<<"filter", t>>, <<"normalize", t>>, <<"predict", t>>>>
              \o ExpectedStages(t + 1, n)
       ELSE <<<<"filter", t>>>>

IsPrefix(s, t) == Len(s) <= Len(t) /\ \A i \in 1..Len(s) : s[i] = t[i]

\* 0. + log(l[1]) + ... + log(l[i])
RECURSIVE SumLogs(_, _)
SumLogs(l, i) == IF i = 0 THEN Log(One) ELSE LogAdd(SumLogs(l, i - 1), Log(l[i]))

GendistOther == {Int2D(3), NaN}

\* C6: an accepted call runs filter(0), normalise-and-predict(0), filter(1), ...,
\* filter(ndata-1) in that order and nothing else; the accumulator is the sum
\* of log(L_t) over the sites filtered; prediction t reads gendist[t], so that
\* gendist[ndata-1] is never read and any value in its place gives the same
\* result.
C6_StageOrder ==
  Feasible =>
    /\ IsPrefix(stages, ExpectedStages(0, ndata))
    /\ pc = "done" => stages = ExpectedStages(0, ndata)
    /\ loglikelihood_value = SumLogs(l_hist, Len(l_hist))
    /\ pc = "done" => Len(l_hist) = ndata /\ result = loglikelihood_value
    /\ {e \in reads : e[1] = "gendist"} = {<<"gendist", t>> : t \in 0..(Predicted - 1)}
    /\ <<"gendist", ndata - 1>> \notin reads
    /\ (pc = "done" /\ ndata > 0) =>
         \A g \in GendistOther :
           loglikelihood_cpp(k, r, Ys, f, [gendist EXCEPT ![ndata - 1] = g],
                             epsilon, ndata) = result

C6_Witness ==
  /\ pc = "done" /\ Feasible /\ ndata = MaxSites
  /\ Len(stages) = 3 * MaxSites - 2
  /\ Predicted = MaxSites - 1
  /\ result.c = "log"

\* ------------------------------------------------------------------------
\* C7 (checked on the calls of SpecSite)

\* the example: one site, two allele classes of frequency 0.5, epsilon = 0,
\* r = 0.3, observed pair (0, 0)
C7_Example ==
  /\ ndata = 1 /\ r = Fin(3, 10) /\ epsilon = Zero
  /\ f[0] = Row2 /\ Ys[0] = Pair(0, 0)

\* C7 as stated: on one site no transition is applied and the result is
\* log((1-r)*lk0 + r*lk1); in the example lk1 = 0.5 and lk0 = 0.5.
C7_SingleSiteAsStated ==
  (Feasible /\ ndata = 1 /\ pc = "done") =>
    /\ stages = <<<<"filter", 0>>>>
    /\ result = Log(DAdd(DMul(DSub(One, r), lk0), DMul(r, lk1)))
    /\ C7_Example => lk1 = Half /\ lk0 = Half

\* C7 amended: on one site no transition is applied and the result is
\* log((1-r)*lk0 + r*lk1); in the example lk1 = 0.5 and lk0 = 0.25 (the double
\* sum has the single non-zero term f(0)*f(0)), so the result is log(0.325).
C7_SingleSiteAmended ==
  (Feasible /\ ndata = 1 /\ pc = "done") =>
    /\ stages = <<<<"filter", 0>>>>
    /\ result = Log(DAdd(DMul(DSub(One, r), lk0), DMul(r, lk1)))
    /\ C7_Example => lk1 = Half /\ lk0 = Quarter /\ result = Log(Fin(13, 40))

C7_Witness ==
  /\ pc = "done" /\ Feasible /\ C7_Example
  /\ lk0 = Quarter /\ lk1 = Half
  /\ result = [c |-> "log", n |-> 13, d |-> 40]

\* ------------------------------------------------------------------------
\* C8 (checked on the prediction steps of SpecPredict)

\* the decay of the prediction step that has just run
C8_Decay == Decay(k, gendist[0])

\* C8: for a decay d in [0, 1] and a filter (q0, q1) summing to 1, the
\* prediction gives p1' = r + d*(q1 - r) and p0' = 1 - p1'; a smaller decay
\* brings p1' no farther from r, and d = 0 gives (1 - r, r) whatever the filter.
C8_PredictContracts ==
  (pc = "loop" /\ IsProb(C8_Decay)) =>
    /\ current_predictive[1]
         = DAdd(r, DMul(C8_Decay, DSub(current_filter[1], r)))
    /\ current_predictive[0] = DSub(One, current_predictive[1])
    /\ C8_Decay = Zero =>
         current_predictive = [s \in 0..1 |-> IF s = 0 THEN DSub(One, r) ELSE r]
    /\ \A g \in PredictGendistGrid :
         (IsProb(Decay(k, g)) /\ DLe(Decay(k, g), C8_Decay)) =>
           DLe(DAbs(DSub(NextPredictive(current_filter, k, r, g)[1], r)),
               DAbs(DSub(current_predictive[1], r)))

C8_Witness ==
  /\ pc = "loop" /\ DLt(Zero, k) /\ gendist[0] = PInf
  /\ C8_Decay = Zero
  /\ current_filter[1] # r
  /\ current_predictive[1] = r /\ DLt(Zero, r) /\ DLt(r, One)

\* ------------------------------------------------------------------------
\* C9 (checked on the calls of SpecSite)

\* sum over the active g of f(g) * (the factor of an observation y)
SideSum(frow, y, eps) ==
  LET ns == NStates(frow)
  IN  SumSeq([i \in 1..ns |->
                DMul(frow[i - 1],
                     IF y = i - 1 THEN DSub(One, DMul(Int2D(ns - 1), eps)) ELSE eps)],
             ns)

C9_Out(j) == ~InRange(Ys[idata][j], NStates(f[idata]))
C9_BothOut == C9_Out(0) /\ C9_Out(1) /\ ActiveSum(f[idata]) = One
C9_EpsSquared == DMul(epsilon, epsilon)

\* the terms of lk0 and lk1 carry the factor epsilon for a side out of range
C9_FactorEpsilon ==
  /\ C9_Out(0) =>
       /\ lk0 = DMul(DMul(epsilon, ActiveSum(f[idata])),
                     SideSum(f[idata], Ys[idata][1], epsilon))
       /\ lk1 = DMul(epsilon, SideSum(f[idata], Ys[idata][1], epsilon))
  /\ C9_Out(1) =>
       /\ lk0 = DMul(DMul(epsilon, ActiveSum(f[idata])),
                     SideSum(f[idata], Ys[idata][0], epsilon))
       /\ lk1 = DMul(epsilon, SideSum(f[idata], Ys[idata][0], epsilon))

\* C9: a side out of [0, nstates_t) contributes the factor epsilon to every
\* term; with both sides out and active frequencies summing to 1,
\* lk0 = lk1 = epsilon^2 and the filter vector, once the code has normalised
\* it, equals the predictive vector.
C9_OutOfRangeFilterEqualsPredictive ==
  (Feasible /\ pc = "normalized") =>
    /\ C9_FactorEpsilon
    /\ C9_BothOut =>
         /\ lk0 = C9_EpsSquared /\ lk1 = C9_EpsSquared
         /\ current_filter = current_predictive

\* ------------------------------------------------------------------------
\* C10 (checked on the calls of SpecSite)

\* s[lo] + ... + s[hi], summed by halves
RECURSIVE C10_SumRange(_, _, _)
C10_SumRange(s, lo, hi) ==
  IF lo = hi THEN s[lo]
  ELSE LET m == (lo + hi) \div 2
       IN  DAdd(C10_SumRange(s, lo, m), C10_SumRange(s, m + 1, hi))

\* the sum of lk over all the observed pairs in [0, ns) x [0, ns), ns >= 1
C10_SumOverPairs(Lk(_, _, _, _), frow, eps) ==
  LET ns == NStates(frow)
  IN  C10_SumRange([i \in 1..(ns * ns) |-> Lk(frow, (i - 1) \div ns, (i - 1) % ns, eps)],
                   1, ns * ns)

\* C10: at a site with nstates >= 1 whose active frequencies sum to 1, lk0
\* summed over all observed pairs in range is 1, so is lk1, and lk0 is the
\* product of the two one-sided sums sum_g f(g)*P(y|g).
C10_EmissionIsDistribution ==
  (pc = "filtered" /\ nstates >= 1 /\ ActiveSum(f[idata]) = One) =>
    /\ C10_SumOverPairs(Lk0, f[idata], epsilon) = One
    /\ C10_SumOverPairs(Lk1, f[idata], epsilon) = One
    /\ lk0 = DMul(SideSum(f[idata], Ys[idata][0], epsilon),
                  SideSum(f[idata], Ys[idata][1], epsilon))

C10_Witness ==
  /\ pc = "filtered" /\ nstates = 3 /\ ActiveSum(f[idata]) = One
  /\ epsilon = Quarter
  /\ Ys[idata] = Pair(0, 1)
  /\ lk0 = Fin(15, 128)

====
